---- MODULE Spec2Model ----
(***************************************************************************)
(* Model of the sentinel-rag chat front end: the client page (onSend and   *)
(* its SSE parsing loop, appendToAssistant, the React state it keeps), the *)
(* streaming relay route /api/ask-stream and the non-streaming route       *)
(* /api/ask.                                                               *)
(*                                                                         *)
(* Text is a sequence of character codes (UTF-16 code units, all below     *)
(* 65536 here); a byte stream is a sequence of byte values.  Indices into  *)
(* the transcript are 0-based as in the source; messages[idx + 1] is the   *)
(* message at index idx.                                                   *)
(***************************************************************************)
EXTENDS Integers, Sequences, FiniteSets, TLC

VARIABLES
  input,              \* useState input, as of the last committed render
  loading,            \* useState loading, as of the last committed render
  messages,           \* useState messages, as of the last committed render
  assistantIndexRef,  \* assistantIndexRef.current
  queue,              \* state updates queued outside an event, not yet rendered
  ops,                \* one record per onSend invocation that passed its guard
  script,             \* the backend's answer to the k-th forwarded request
  ask,                \* the non-streaming routes: request, backend reply, responses
  mounted             \* the Page component is mounted

vars == <<input, loading, messages, assistantIndexRef, queue, ops, script, ask, mounted>>

----------------------------------------------------------------------------
(* Bounds of the model. *)

\* accepted sends in one behaviour
MaxSends == 2
\* lines of a multi-line backend stream
MaxLines == 2
\* separator/leading spaces after the prefix in the one-line streams
MaxSpaces == 2

----------------------------------------------------------------------------
(* Characters and literals of the source. *)

LF == 10
CR == 13
SP == 32
TAB == 9
\* U+FFFD, what TextDecoder emits for a malformed sequence
Replacement == 65533
\* assistantIndexRef.current === null
Null == -1
\* "data:".length, the argument of line.slice(5)
PrefixLen == 5

\* "data:"
DataPrefix == <<100, 97, 116, 97, 58>>
\* "[END]"
EndSentinel == <<91, 69, 78, 68, 93>>
\* "Streaming failed. "
StreamingFailed == <<83, 116, 114, 101, 97, 109, 105, 110, 103, 32, 102, 97, 105, 108, 101, 100, 46, 32>>
\* "HTTP "
HttpWord == <<72, 84, 84, 80, 32>>
\* "No response body (stream missing)."
NoBodyMessage == <<78, 111, 32, 114, 101, 115, 112, 111, 110, 115, 101, 32, 98, 111, 100, 121, 32, 40, 115, 116, 114, 101, 97, 109, 32, 109, 105, 115, 115, 105, 110, 103, 41, 46>>
\* the greeting the transcript starts with
Greeting == <<65, 115, 107, 32, 109, 101, 32, 97, 110, 121, 116, 104, 105, 110, 103, 32, 97, 98, 111, 117, 116, 32, 116, 104, 101, 32, 117, 112, 108, 111, 97, 100, 101, 100, 32, 98, 111, 111, 107, 32, 40, 82, 65, 71, 41, 46, 32, 73, 8217, 108, 108, 32, 97, 110, 115, 119, 101, 114, 32, 117, 115, 105, 110, 103, 32, 111, 110, 108, 121, 32, 116, 104, 101, 32, 100, 111, 99, 117, 109, 101, 110, 116, 32, 99, 111, 110, 116, 101, 120, 116, 46>>

----------------------------------------------------------------------------
(* String primitives of JavaScript, on sequences of character codes. *)

\* s.slice(from) with 0 <= from
SliceFrom(s, from) == SubSeq(s, from + 1, Len(s))

\* s.slice(from, to) with 0 <= from <= to
Slice(s, from, to) == SubSeq(s, from + 1, to)

\* s.indexOf(c) for a single character c: -1 when absent
IndexOf(s, c) ==
  IF \E i \in 1..Len(s) : s[i] = c
  THEN (CHOOSE i \in 1..Len(s) : s[i] = c /\ \A j \in 1..(i - 1) : s[j] # c) - 1
  ELSE -1

\* s.startsWith(p)
StartsWith(s, p) == Len(s) >= Len(p) /\ SubSeq(s, 1, Len(p)) = p

\* s.endsWith(p)
EndsWith(s, p) == Len(s) >= Len(p) /\ SubSeq(s, Len(s) - Len(p) + 1, Len(s)) = p

\* the white space String.prototype.trim removes (the part that occurs here)
IsSpace(c) == c \in {SP, LF, CR, TAB}

RECURSIVE TrimStart(_)
TrimStart(s) == IF s # <<>> /\ IsSpace(Head(s)) THEN TrimStart(Tail(s)) ELSE s

RECURSIVE TrimEnd(_)
TrimEnd(s) ==
  IF s # <<>> /\ IsSpace(s[Len(s)]) THEN TrimEnd(SubSeq(s, 1, Len(s) - 1)) ELSE s

\* s.trim()
Trim(s) == TrimEnd(TrimStart(s))

\* the decimal digits of n >= 0, as `${n}` prints them
RECURSIVE Digits(_)
Digits(n) == IF n < 10 THEN <<48 + n>> ELSE Append(Digits(n \div 10), 48 + (n % 10))

RECURSIVE Concat(_)
Concat(ss) == IF ss = <<>> THEN <<>> ELSE Head(ss) \o Concat(Tail(ss))

----------------------------------------------------------------------------
(* new TextDecoder("utf-8"), decode(value, {stream: true}): one- and       *)
(* two-byte sequences.  lead is the lead byte carried over from the        *)
(* previous chunk, 0 when there is none.                                   *)

IsAscii(b) == b < 128
IsLead2(b) == b >= 194 /\ b <= 223
IsContinuation(b) == b >= 128 /\ b <= 191

RECURSIVE DecodeStream(_, _, _)
DecodeStream(lead, bytes, out) ==
  IF bytes = <<>> THEN [text |-> out, lead |-> lead]
  ELSE LET b == Head(bytes) IN
    IF lead # 0
    THEN IF IsContinuation(b)
         THEN DecodeStream(0, Tail(bytes), Append(out, (lead - 192) * 64 + (b - 128)))
         ELSE DecodeStream(0, bytes, Append(out, Replacement))
    ELSE IF IsAscii(b) THEN DecodeStream(0, Tail(bytes), Append(out, b))
    ELSE IF IsLead2(b) THEN DecodeStream(b, Tail(bytes), out)
    ELSE DecodeStream(0, Tail(bytes), Append(out, Replacement))

\* decoder.decode(value, { stream: true }) with the decoder holding lead
Decode(lead, value) == DecodeStream(lead, value, <<>>)

----------------------------------------------------------------------------
(* The inner loop of onSend: complete lines are cut off the buffer, one    *)
(* delta per data: line, until no line feed is left or the sentinel is     *)
(* seen.                                                                   *)

\* rawLine.endsWith("\r") ? rawLine.slice(0, -1) : rawLine
StripCR(rawLine) ==
  IF EndsWith(rawLine, <<CR>>) THEN Slice(rawLine, 0, Len(rawLine) - 1) ELSE rawLine

\* faulty variant: the separator space is kept
PayloadKeepSpace(line) == SliceFrom(line, PrefixLen)

\* faulty variant: the payload is trimmed at its start
PayloadTrimStart(line) == TrimStart(SliceFrom(line, PrefixLen))

\* let data = line.slice(5); if (data.startsWith(" ")) data = data.slice(1)
Payload(line) ==
  LET data == SliceFrom(line, PrefixLen)
  IN IF StartsWith(data, <<SP>>) THEN SliceFrom(data, 1) ELSE data

\* faulty variant: an empty payload is appended as it is
DeltaOfEmptyKept(data) == data

\* the argument of appendToAssistant for a payload that is not the sentinel
DeltaOf(data) == IF data = <<>> THEN <<LF>> ELSE data

\* faulty variant: the unterminated tail is not carried over to the next chunk
RECURSIVE ProcessLinesDropTail(_, _)
ProcessLinesDropTail(buffer, deltas) ==
  LET lineEnd == IndexOf(buffer, LF) IN
  IF lineEnd = -1 THEN [buffer |-> <<>>, deltas |-> deltas, ended |-> FALSE]
  ELSE LET rawLine == Slice(buffer, 0, lineEnd)
           rest == SliceFrom(buffer, lineEnd + 1)
           line == StripCR(rawLine)
       IN IF StartsWith(line, DataPrefix)
          THEN IF Payload(line) = EndSentinel
               THEN [buffer |-> <<>>, deltas |-> deltas, ended |-> TRUE]
               ELSE ProcessLinesDropTail(rest, Append(deltas, DeltaOf(Payload(line))))
          ELSE ProcessLinesDropTail(rest, deltas)

\* faulty variant: the buffer is not emptied when the sentinel is recognized
RECURSIVE ProcessLinesKeepRest(_, _)
ProcessLinesKeepRest(buffer, deltas) ==
  LET lineEnd == IndexOf(buffer, LF) IN
  IF lineEnd = -1 THEN [buffer |-> buffer, deltas |-> deltas, ended |-> FALSE]
  ELSE LET rawLine == Slice(buffer, 0, lineEnd)
           rest == SliceFrom(buffer, lineEnd + 1)
           line == StripCR(rawLine)
       IN IF StartsWith(line, DataPrefix)
          THEN IF Payload(line) = EndSentinel
               THEN [buffer |-> rest, deltas |-> deltas, ended |-> TRUE]
               ELSE ProcessLinesKeepRest(rest, Append(deltas, DeltaOf(Payload(line))))
          ELSE ProcessLinesKeepRest(rest, deltas)

\* faulty variant: the lines after the sentinel in the same chunk are processed too
RECURSIVE ProcessLinesPastEnd(_, _, _)
ProcessLinesPastEnd(buffer, deltas, ended) ==
  LET lineEnd == IndexOf(buffer, LF) IN
  IF lineEnd = -1
  THEN [buffer |-> IF ended THEN <<>> ELSE buffer, deltas |-> deltas, ended |-> ended]
  ELSE LET rawLine == Slice(buffer, 0, lineEnd)
           rest == SliceFrom(buffer, lineEnd + 1)
           line == StripCR(rawLine)
       IN IF StartsWith(line, DataPrefix)
          THEN IF Payload(line) = EndSentinel
               THEN ProcessLinesPastEnd(rest, deltas, TRUE)
               ELSE ProcessLinesPastEnd(rest, Append(deltas, DeltaOf(Payload(line))), ended)
          ELSE ProcessLinesPastEnd(rest, deltas, ended)

ProcessLinesNoBreak(buffer, deltas) == ProcessLinesPastEnd(buffer, deltas, FALSE)

RECURSIVE ProcessLines(_, _)
ProcessLines(buffer, deltas) ==
  LET lineEnd == IndexOf(buffer, LF) IN
  IF lineEnd = -1 THEN [buffer |-> buffer, deltas |-> deltas, ended |-> FALSE]
  ELSE LET rawLine == Slice(buffer, 0, lineEnd)
           rest == SliceFrom(buffer, lineEnd + 1)
           line == StripCR(rawLine)
       IN IF StartsWith(line, DataPrefix)
          THEN IF Payload(line) = EndSentinel
               THEN [buffer |-> <<>>, deltas |-> deltas, ended |-> TRUE]
               ELSE ProcessLines(rest, Append(deltas, DeltaOf(Payload(line))))
          ELSE ProcessLines(rest, deltas)

----------------------------------------------------------------------------
(* React state.  An update queued with setX outside an event handler is    *)
(* applied by a later render; updater functions run at that render, in     *)
(* queue order, and read assistantIndexRef.current then.                   *)

Msg(role, text) == [role |-> role, text |-> text]

Update(kind, text) == [kind |-> kind, text |-> text]

View(in, ld, ms, ref) == [input |-> in, loading |-> ld, messages |-> ms, ref |-> ref]

\* faulty variant: the delta takes the place of the text
AppendUpdaterReplace(prev, idx, delta) ==
  IF idx = Null \/ idx < 0 \/ idx >= Len(prev) THEN prev
  ELSE [prev EXCEPT ![idx + 1] = Msg(prev[idx + 1].role, delta)]

\* faulty variant: the delta is put in front of the text
AppendUpdaterInFront(prev, idx, delta) ==
  IF idx = Null \/ idx < 0 \/ idx >= Len(prev) THEN prev
  ELSE [prev EXCEPT ![idx + 1] = Msg(prev[idx + 1].role, delta \o prev[idx + 1].text)]

\* the updater of appendToAssistant(delta), run on prev with the ref as it is
AppendUpdater(prev, idx, delta) ==
  IF idx = Null \/ idx < 0 \/ idx >= Len(prev) THEN prev
  ELSE [prev EXCEPT ![idx + 1] = Msg(prev[idx + 1].role, prev[idx + 1].text \o delta)]

\* faulty variant: the placeholder updater does not record its index
ApplyUpdateNoRef(v, u) ==
  CASE u.kind = "input" -> [v EXCEPT !.input = u.text]
    [] u.kind = "loadingTrue" -> [v EXCEPT !.loading = TRUE]
    [] u.kind = "loadingFalse" -> [v EXCEPT !.loading = FALSE]
    [] u.kind = "user" -> [v EXCEPT !.messages = Append(v.messages, Msg("user", u.text))]
    [] u.kind = "placeholder" ->
         [v EXCEPT !.messages = Append(v.messages, Msg("assistant", <<>>))]
    [] u.kind = "append" ->
         [v EXCEPT !.messages = AppendUpdater(v.messages, v.ref, u.text)]

\* one queued update applied to the state a render is computing
ApplyUpdate(v, u) ==
  CASE u.kind = "input" -> [v EXCEPT !.input = u.text]
    [] u.kind = "loadingTrue" -> [v EXCEPT !.loading = TRUE]
    [] u.kind = "loadingFalse" -> [v EXCEPT !.loading = FALSE]
    [] u.kind = "user" -> [v EXCEPT !.messages = Append(v.messages, Msg("user", u.text))]
    [] u.kind = "placeholder" ->
         [v EXCEPT !.ref = Len(v.messages),
                   !.messages = Append(v.messages, Msg("assistant", <<>>))]
    [] u.kind = "append" ->
         [v EXCEPT !.messages = AppendUpdater(v.messages, v.ref, u.text)]

RECURSIVE ApplyAll(_, _)
ApplyAll(v, us) == IF us = <<>> THEN v ELSE ApplyAll(ApplyUpdate(v, Head(us)), Tail(us))

\* appendToAssistant(delta) for each delta in turn: the updates it queues
AppendUpdates(deltas) == [i \in 1..Len(deltas) |-> Update("append", deltas[i])]

\* faulty variant: the guard does not look at loading
ProceedsWhileLoading(in, ld) == Len(Trim(in)) > 0

\* onSend goes on past `if (!q || loading) return`
Proceeds(in, ld) == Len(Trim(in)) > 0 /\ ~ld

----------------------------------------------------------------------------
(* The backend and what a client sees of a response. *)

Backend(reachable, status, body) ==
  [reachable |-> reachable, status |-> status, body |-> body]

Response(status, bodyNull, body) ==
  [status |-> status, bodyNull |-> bodyNull, body |-> body]

NoResponse == Response(0, TRUE, <<>>)

\* response.ok
Ok(status) == status >= 200 /\ status <= 299

\* /api/ask-stream POST: the response built from the backend's, when the
\* outbound fetch resolved.  No status is passed to new Response.
RelayStatus(b) == 200

RelayBody(b) == b.body

\* faulty variant: the message is not trimmed
FailureMessageUntrimmed(errorMessage) == StreamingFailed \o errorMessage

\* the catch block's message: `Streaming failed. ${e?.message ?? ""}`.trim()
FailureMessage(errorMessage) == Trim(StreamingFailed \o errorMessage)

\* the argument of appendToAssistant in the catch block
Notice(errorMessage) == <<LF, LF>> \o FailureMessage(errorMessage)

\* `HTTP ${response.status}. ${txt}`.trim()
HttpErrorMessage(status, txt) == Trim(HttpWord \o Digits(status) \o <<46, SP>> \o txt)

----------------------------------------------------------------------------
(* The inputs the model draws from. *)

RECURSIVE Spaces(_)
Spaces(k) == IF k = 0 THEN <<>> ELSE <<SP>> \o Spaces(k - 1)

\* payloads of the one-line streams, as bytes: "Hello", "", "Hi ", "[END]",
\* "[END] ", and a two-byte character (U+00E9) followed by "!"
OnePayloads ==
  { <<72, 101, 108, 108, 111>>, <<>>, <<72, 105, 32>>, EndSentinel,
    EndSentinel \o <<SP>>, <<195, 169, 33>> }

\* lines that do not start with the prefix: "id:1", " data: x", "Data: x"
OtherLines ==
  { <<105, 100, 58, 49>>, <<SP>> \o DataPrefix \o <<SP, 120>>,
    <<68, 97, 116, 97, 58, SP, 120>> }

Terminators == { <<LF>>, <<CR, LF>> }

\* what may follow the last line feed: nothing, or an unterminated "data: t"
Tails == { <<>>, DataPrefix \o <<SP, 116>> }

OneLineStreams ==
  { (DataPrefix \o Spaces(k) \o p) \o t \o tail :
      k \in 0..MaxSpaces, p \in OnePayloads, t \in Terminators, tail \in Tails }
  \cup { l \o t \o tail : l \in OtherLines, t \in Terminators, tail \in Tails }

\* the lines of the multi-line streams: "data: a", "data:", "data:[END]", ":x"
CoreLines ==
  { DataPrefix \o <<SP, 97>>, DataPrefix, DataPrefix \o EndSentinel, <<58, 120>> }

RECURSIVE LineSeqs(_)
LineSeqs(n) ==
  IF n = 0 THEN { <<>> }
  ELSE { l \o <<LF>> \o r : l \in CoreLines, r \in LineSeqs(n - 1) }

MultiLineStreams ==
  UNION { { body \o tail : body \in LineSeqs(n), tail \in Tails } : n \in 2..MaxLines }

\* "data: The answer\ndata: is 42.\ndata:[END]\n"
ScenarioStream ==
  <<100, 97, 116, 97, 58, 32, 84, 104, 101, 32, 97, 110, 115, 119, 101, 114, 10,
    100, 97, 116, 97, 58, 32, 105, 115, 32, 52, 50, 46, 10,
    100, 97, 116, 97, 58, 91, 69, 78, 68, 93, 10>>

Streams == { <<>>, ScenarioStream } \cup OneLineStreams \cup MultiLineStreams

\* status codes the backend answers with
Statuses == { 200, 404, 500 }

\* the answers of a behaviour with a single send
SingleAnswers ==
  { Backend(TRUE, 200, s) : s \in Streams }
  \cup { Backend(TRUE, st, b) : st \in Statuses \ { 200 },
                                b \in { <<>>, DataPrefix \o <<SP, 97, LF>> } }
  \cup { Backend(FALSE, 0, <<>>) }

\* the answers of a behaviour with several sends: "data:a\n", and an
\* unreachable backend
RepeatAnswers ==
  { Backend(TRUE, 200, DataPrefix \o <<97, LF>>), Backend(FALSE, 0, <<>>) }

RECURSIVE AnswerSeqs(_)
AnswerSeqs(n) ==
  IF n = 0 THEN { <<>> }
  ELSE { <<a>> \o r : a \in RepeatAnswers, r \in AnswerSeqs(n - 1) }

Scripts ==
  { <<a>> : a \in SingleAnswers } \cup UNION { AnswerSeqs(n) : n \in 2..MaxSends }

\* what the user types: " q "
Inputs == { <<SP, 113, SP>> }

\* e.message of a rejected fetch or read: none, or "network error"
ErrorMessages ==
  { <<>>, <<110, 101, 116, 119, 111, 114, 107, 32, 101, 114, 114, 111, 114>> }

\* the body of the framework's 500 when a route handler throws: empty, or
\* "Internal Server Error"
FrameworkBodies ==
  { <<>>, <<73, 110, 116, 101, 114, 110, 97, 108, 32, 83, 101, 114, 118, 101, 114,
            32, 69, 114, 114, 111, 114>> }

----------------------------------------------------------------------------
(* One record per onSend invocation that passed its guard: where it is,    *)
(* the response its fetch resolved with, the bytes its reader has handed   *)
(* out, the decoder's carried lead byte, the line buffer, and whether it   *)
(* has cancelled the reader.                                               *)

Op(pc, resp, pos, lead, buffer, cancelled) ==
  [pc |-> pc, resp |-> resp, pos |-> pos, lead |-> lead, buffer |-> buffer,
   cancelled |-> cancelled]

Active(op) == op.pc \in { "fetching", "errtext", "reading" }

\* the non-streaming routes before a request
AskIdle ==
  [pc |-> "idle", handler |-> "none", question |-> "", reachable |-> FALSE,
   backendStatus |-> 0, backendBody |-> "", status |-> 0, body |-> ""]

Init ==
  /\ input = <<>>
  /\ loading = FALSE
  /\ messages = << Msg("assistant", Greeting) >>
  /\ assistantIndexRef = Null
  /\ queue = <<>>
  /\ ops = <<>>
  /\ script \in Scripts
  /\ ask = AskIdle
  /\ mounted = TRUE

\* onChange of the textarea: setInput(e.target.value), rendered with the event
Type ==
  /\ mounted
  /\ \E s \in Inputs : input' = s
  /\ UNCHANGED <<loading, messages, assistantIndexRef, queue, ops, script, ask, mounted>>

\* the four updates onSend queues before its first await
SendUpdates(q) ==
  << Update("input", <<>>), Update("loadingTrue", <<>>), Update("user", q),
     Update("placeholder", <<>>) >>

\* A click on Send or Enter in the textarea: onSend up to its first await.
\* The handler reads input and loading of the committed render; the updates
\* of a discrete event are rendered before the next event or task runs.
Send ==
  /\ mounted
  /\ Len(ops) < Len(script)
  /\ IF Proceeds(input, loading)
     THEN LET v == ApplyAll(View(input, loading, messages, assistantIndexRef),
                            SendUpdates(Trim(input)))
          IN /\ input' = v.input
             /\ loading' = v.loading
             /\ messages' = v.messages
             /\ assistantIndexRef' = v.ref
             /\ ops' = Append(ops, Op("fetching", NoResponse, 0, 0, <<>>, FALSE))
             /\ UNCHANGED <<queue, script, ask, mounted>>
     ELSE UNCHANGED vars

\* faulty variant: the finally block is missing
FailNoFinally(o, errorMessage) ==
  /\ queue' = queue \o << Update("append", Notice(errorMessage)) >>
  /\ ops' = [ops EXCEPT ![o] = Op("failed", @.resp, @.pos, 0, <<>>, @.cancelled)]
  /\ UNCHANGED <<input, loading, messages, assistantIndexRef, script, ask, mounted>>

\* the catch block and the finally block, for an error with this message
Fail(o, errorMessage) ==
  /\ queue' = queue \o << Update("append", Notice(errorMessage)),
                          Update("loadingFalse", <<>>) >>
  /\ ops' = [ops EXCEPT ![o] = Op("failed", @.resp, @.pos, 0, <<>>, @.cancelled)]
  /\ UNCHANGED <<input, loading, messages, assistantIndexRef, script, ask, mounted>>

\* fetch("/api/ask-stream") rejects: the client cannot reach the relay
FetchReject(o) ==
  /\ ops[o].pc = "fetching"
  /\ \E m \in ErrorMessages : Fail(o, m)

\* /api/ask-stream POST: the responses the handler returns, as the client
\* sees them.  There is none when the outbound fetch rejects: nothing
\* catches the rejection and it leaves the handler.
RelayResponses(b) ==
  IF b.reachable
  THEN { Response(RelayStatus(b), nul, RelayBody(b)) :
           nul \in IF RelayBody(b) = <<>> THEN BOOLEAN ELSE { FALSE } }
  ELSE {}

\* what the client's fetch resolves with: the relay's response, or the
\* framework's 500 when the relay's handler throws on its outbound fetch
Resolutions(b) ==
  IF RelayResponses(b) # {}
  THEN RelayResponses(b)
  ELSE { Response(500, FALSE, fb) : fb \in FrameworkBodies }

\* fetch resolves; onSend goes on to its next await or throws
FetchResolve(o) ==
  /\ ops[o].pc = "fetching"
  /\ \E r \in Resolutions(script[o]) :
       IF ~Ok(r.status)
       THEN /\ ops' = [ops EXCEPT ![o] = Op("errtext", r, 0, 0, <<>>, FALSE)]
            /\ UNCHANGED <<input, loading, messages, assistantIndexRef, queue,
                           script, ask, mounted>>
       ELSE IF r.bodyNull
       THEN /\ queue' = queue \o << Update("append", Notice(NoBodyMessage)),
                                    Update("loadingFalse", <<>>) >>
            /\ ops' = [ops EXCEPT ![o] = Op("failed", r, 0, 0, <<>>, FALSE)]
            /\ UNCHANGED <<input, loading, messages, assistantIndexRef, script, ask, mounted>>
       ELSE /\ ops' = [ops EXCEPT ![o] = Op("reading", r, 0, 0, <<>>, FALSE)]
            /\ UNCHANGED <<input, loading, messages, assistantIndexRef, queue,
                           script, ask, mounted>>

\* await response.text().catch(() => "") settles; the HTTP error is thrown
ErrorText(o) ==
  /\ ops[o].pc = "errtext"
  /\ \E txt \in { Decode(0, ops[o].resp.body).text, <<>> } :
       Fail(o, HttpErrorMessage(ops[o].resp.status, txt))

\* one pass of the outer loop on a chunk: decode into the buffer, cut the
\* complete lines, queue a delta per data: line, cancel on the sentinel
OnChunk(op, value) ==
  LET d == Decode(op.lead, value)
      r == ProcessLines(op.buffer \o d.text, <<>>)
  IN [op |-> Op("reading", op.resp, op.pos + Len(value), d.lead, r.buffer, r.ended),
      deltas |-> r.deltas]

\* reader.read() resolves with the next n bytes of the body
ReadChunk(o) ==
  /\ ops[o].pc = "reading"
  /\ ~ops[o].cancelled
  /\ \E n \in 1..(Len(ops[o].resp.body) - ops[o].pos) :
       LET c == OnChunk(ops[o], SubSeq(ops[o].resp.body, ops[o].pos + 1, ops[o].pos + n))
       IN /\ ops' = [ops EXCEPT ![o] = c.op]
          /\ queue' = queue \o AppendUpdates(c.deltas)
  /\ UNCHANGED <<input, loading, messages, assistantIndexRef, script, ask, mounted>>

\* faulty variant: the unterminated tail is applied when the stream ends
ReadDoneFlush(o) ==
  /\ ops[o].pc = "reading"
  /\ ops[o].cancelled \/ ops[o].pos = Len(ops[o].resp.body)
  /\ queue' = queue \o << Update("append", ops[o].buffer), Update("loadingFalse", <<>>) >>
  /\ ops' = [ops EXCEPT ![o] = Op("completed", @.resp, @.pos, 0, <<>>, @.cancelled)]
  /\ UNCHANGED <<input, loading, messages, assistantIndexRef, script, ask, mounted>>

\* reader.read() resolves with done: the body is exhausted, or the reader
\* was cancelled; the loop breaks and the finally block runs
ReadDone(o) ==
  /\ ops[o].pc = "reading"
  /\ ops[o].cancelled \/ ops[o].pos = Len(ops[o].resp.body)
  /\ queue' = Append(queue, Update("loadingFalse", <<>>))
  /\ ops' = [ops EXCEPT ![o] = Op("completed", @.resp, @.pos, 0, <<>>, @.cancelled)]
  /\ UNCHANGED <<input, loading, messages, assistantIndexRef, script, ask, mounted>>

\* reader.read() rejects: the connection failed while the body was open
ReadReject(o) ==
  /\ ops[o].pc = "reading"
  /\ ~ops[o].cancelled
  /\ \E m \in ErrorMessages : Fail(o, m)

\* React renders: every queued update is applied, in order.  Updates queued
\* on a component that is no longer mounted are never processed.
Render ==
  /\ mounted
  /\ queue # <<>>
  /\ LET v == ApplyAll(View(input, loading, messages, assistantIndexRef), queue)
     IN /\ input' = v.input
        /\ loading' = v.loading
        /\ messages' = v.messages
        /\ assistantIndexRef' = v.ref
  /\ queue' = <<>>
  /\ UNCHANGED <<ops, script, ask, mounted>>

Next ==
  \/ Type
  \/ Send
  \/ Render
  \/ \E o \in 1..Len(ops) : FetchReject(o)
  \/ \E o \in 1..Len(ops) : FetchResolve(o)
  \/ \E o \in 1..Len(ops) : ErrorText(o)
  \/ \E o \in 1..Len(ops) : ReadChunk(o)
  \/ \E o \in 1..Len(ops) : ReadDone(o)
  \/ \E o \in 1..Len(ops) : ReadReject(o)

Spec == Init /\ [][Next]_vars

\* an await of some onSend settles: its fetch, its response.text(), a read
Settle ==
  \E o \in 1..Len(ops) :
    \/ FetchReject(o)
    \/ ErrorText(o)
    \/ ReadDone(o)
    \/ ReadReject(o)
    \/ FetchResolve(o)
    \/ ReadChunk(o)

\* the answers of the behaviours checked for termination, one per way an
\* operation ends: "data:a\n" (the stream ends, or a read is rejected),
\* "[END]" in a data: line (the sentinel), an empty body (which may show as
\* a missing body), and an unreachable backend (a non-success status); the
\* client's fetch may be rejected under each
LiveAnswers ==
  { Backend(TRUE, 200, DataPrefix \o <<97, LF>>),
    Backend(TRUE, 200, DataPrefix \o EndSentinel \o <<LF>>),
    Backend(TRUE, 200, <<>>),
    Backend(FALSE, 0, <<>>) }

InitLive ==
  /\ input = <<>>
  /\ loading = FALSE
  /\ messages = << Msg("assistant", Greeting) >>
  /\ assistantIndexRef = Null
  /\ queue = <<>>
  /\ ops = <<>>
  /\ script \in { <<a>> : a \in LiveAnswers } \cup UNION { AnswerSeqs(n) : n \in 2..MaxSends }
  /\ ask = AskIdle
  /\ mounted = TRUE

\* the fetch and every read settle in the end, and React renders what is queued
SpecLive == InitLive /\ [][Next]_vars /\ WF_vars(Settle) /\ WF_vars(Render)

----------------------------------------------------------------------------
(* The page leaves the screen while an operation may be under way.  Page   *)
(* registers no effect cleanup and passes no AbortSignal to fetch, so the  *)
(* invocations of onSend that are suspended at an await go on as before.   *)

\* React unmounts Page: its state is no longer rendered, no event reaches it
NavigateAway ==
  /\ mounted
  /\ mounted' = FALSE
  /\ UNCHANGED <<input, loading, messages, assistantIndexRef, queue, ops, script, ask>>

\* the answers of the behaviours in which the page may be left:
\* "data: a\ndata: b\n", and an unreachable backend
LeaveAnswers ==
  { Backend(TRUE, 200, DataPrefix \o <<SP, 97, LF>> \o DataPrefix \o <<SP, 98, LF>>),
    Backend(FALSE, 0, <<>>) }

InitNav ==
  /\ input = <<>>
  /\ loading = FALSE
  /\ messages = << Msg("assistant", Greeting) >>
  /\ assistantIndexRef = Null
  /\ queue = <<>>
  /\ ops = <<>>
  /\ script \in { <<a>> : a \in LeaveAnswers }
  /\ ask = AskIdle
  /\ mounted = TRUE

NextNav == Next \/ NavigateAway

SpecNav == InitNav /\ [][NextNav]_vars

----------------------------------------------------------------------------
(* The non-streaming routes: /api/ask of ui/app/api/ask/route.ts, which    *)
(* parses the backend's body as JSON and answers NextResponse.json, and    *)
(* the variant that passes the backend's text on.  Bodies are texts; the   *)
(* JSON functions are tabulated on the bodies the model draws.             *)

\* the questions a request carries
Questions == { "{\"question\":\"a\"}", "{\"question\":\"b\"}", "{\"question\":\"\"}" }

\* bodies of the backend: JSON as JSON.stringify prints it, the same JSON
\* with spaces, a text that is not JSON, and no body
AskBodies == { "{\"answer\":\"a\"}", "{ \"answer\": \"a\" }", "<html>Bad Gateway</html>", "" }

AskStatuses == { 200, 404, 500, 502 }

\* JSON.stringify(JSON.parse(text)) for a text that parses, "SyntaxError" else
Reserialize(text) ==
  IF text \in { "{\"answer\":\"a\"}", "{ \"answer\": \"a\" }" } THEN "{\"answer\":\"a\"}"
  ELSE "SyntaxError"

\* the body of the catch block's answer
ProxyErrorBody == "{\"error\":\"Proxy error\",\"detail\":\"...\"}"

\* ui/app/api/ask/route.ts POST, the backend fetch settled
AskRoute(reachable, status, body) ==
  IF ~reachable \/ Reserialize(body) = "SyntaxError"
  THEN [status |-> 500, body |-> ProxyErrorBody]
  ELSE [status |-> status, body |-> Reserialize(body)]

\* the variant with r.text(): the handler throws when the fetch rejects,
\* and the framework answers 500
AskText(reachable, status, body) ==
  IF ~reachable THEN [status |-> 500, body |-> "Internal Server Error"]
  ELSE [status |-> status, body |-> body]

\* a request arrives at one of the two handlers, which awaits its fetch
AskReceive ==
  /\ ask.pc = "idle"
  /\ \E h \in { "json", "text" }, q \in Questions :
       ask' = [AskIdle EXCEPT !.pc = "forwarding", !.handler = h, !.question = q]
  /\ UNCHANGED <<input, loading, messages, assistantIndexRef, queue, ops, script, mounted>>

\* the backend answers; the handler reads the body and responds
AskReply ==
  /\ ask.pc = "forwarding"
  /\ \E st \in AskStatuses, b \in AskBodies :
       LET r == IF ask.handler = "json" THEN AskRoute(TRUE, st, b)
                ELSE AskText(TRUE, st, b)
       IN ask' = [ask EXCEPT !.pc = "done", !.reachable = TRUE, !.backendStatus = st,
                             !.backendBody = b, !.status = r.status, !.body = r.body]
  /\ UNCHANGED <<input, loading, messages, assistantIndexRef, queue, ops, script, mounted>>

\* the outbound fetch rejects
AskUnreachable ==
  /\ ask.pc = "forwarding"
  /\ LET r == IF ask.handler = "json" THEN AskRoute(FALSE, 0, "")
              ELSE AskText(FALSE, 0, "")
     IN ask' = [ask EXCEPT !.pc = "done", !.status = r.status, !.body = r.body]
  /\ UNCHANGED <<input, loading, messages, assistantIndexRef, queue, ops, script, mounted>>

\* the response is delivered; the route is stateless
AskDone ==
  /\ ask.pc = "done"
  /\ ask' = AskIdle
  /\ UNCHANGED <<input, loading, messages, assistantIndexRef, queue, ops, script, mounted>>

InitAsk ==
  /\ input = <<>>
  /\ loading = FALSE
  /\ messages = << Msg("assistant", Greeting) >>
  /\ assistantIndexRef = Null
  /\ queue = <<>>
  /\ ops = <<>>
  /\ script = <<>>
  /\ ask = AskIdle
  /\ mounted = TRUE

NextAsk == AskReceive \/ AskReply \/ AskUnreachable \/ AskDone

SpecAsk == InitAsk /\ [][NextAsk]_vars

----------------------------------------------------------------------------
(* What the properties below speak of. *)

\* the transcript once every queued update has been rendered
Settled == ApplyAll(View(input, loading, messages, assistantIndexRef), queue)

\* the k-th accepted send appends the messages at indices 2k - 1 and 2k
UserIndex(o) == 2 * o - 1
PlaceholderIndex(o) == 2 * o

\* the text of the placeholder of operation o, once rendered
Text(o) == Settled.messages[PlaceholderIndex(o) + 1].text

\* the bytes the reader of operation o has handed out
Delivered(o) == SubSeq(ops[o].resp.body, 1, ops[o].pos)

\* The wire protocol, stated on a whole text: its LF-terminated lines, one
\* CR before the LF removed
RECURSIVE TerminatedLines(_)
TerminatedLines(text) ==
  IF \A i \in 1..Len(text) : text[i] # LF THEN <<>>
  ELSE LET n == CHOOSE i \in 1..Len(text) : text[i] = LF /\ \A j \in 1..(i - 1) : text[j] # LF
           raw == SubSeq(text, 1, n - 1)
           line == IF raw # <<>> /\ raw[Len(raw)] = CR THEN SubSeq(raw, 1, Len(raw) - 1)
                   ELSE raw
       IN <<line>> \o TerminatedLines(SubSeq(text, n + 1, Len(text)))

IsDataLine(line) == Len(line) >= 5 /\ SubSeq(line, 1, 5) = <<100, 97, 116, 97, 58>>

\* the line after the prefix, one leading space removed if present
ProtocolPayload(line) ==
  LET after == SubSeq(line, 6, Len(line))
  IN IF after # <<>> /\ after[1] = 32 THEN SubSeq(after, 2, Len(after)) ELSE after

IsSentinelLine(line) == IsDataLine(line) /\ ProtocolPayload(line) = <<91, 69, 78, 68, 93>>

\* the lines before the first sentinel frame
RECURSIVE BeforeSentinel(_)
BeforeSentinel(lines) ==
  IF lines = <<>> \/ IsSentinelLine(Head(lines)) THEN <<>>
  ELSE <<Head(lines)>> \o BeforeSentinel(Tail(lines))

\* the payloads of the data: lines, an empty payload replaced by a newline
RECURSIVE PayloadsOf(_)
PayloadsOf(lines) ==
  IF lines = <<>> THEN <<>>
  ELSE (IF IsDataLine(Head(lines))
        THEN (IF ProtocolPayload(Head(lines)) = <<>> THEN <<10>>
              ELSE ProtocolPayload(Head(lines)))
        ELSE <<>>) \o PayloadsOf(Tail(lines))

\* the text the protocol assigns to the bytes delivered to operation o
ProtocolText(o) == PayloadsOf(BeforeSentinel(TerminatedLines(Decode(0, Delivered(o)).text)))

\* loading is false again once operation o has returned, until the next send
LoadingReset(o) == o = Len(ops) => ~Settled.loading

\* the whole body handed to the loop as one chunk
OneChunkText(body) ==
  Concat(OnChunk(Op("reading", Response(200, FALSE, body), 0, 0, <<>>, FALSE), body).deltas)

\* the text the protocol assigns to a whole body: the payloads of the lines
\* before its first sentinel frame
TextBeforeSentinel(body) == PayloadsOf(BeforeSentinel(TerminatedLines(Decode(0, body).text)))

\* "\n\nStreaming failed." and the error's message after a space when it has one
NoticeFor(message) ==
  <<10, 10, 83, 116, 114, 101, 97, 109, 105, 110, 103, 32, 102, 97, 105, 108, 101, 100, 46>>
  \o (IF message = <<>> THEN <<>> ELSE <<32>> \o message)

\* "HTTP <status>." and the body text after a space when there is one
HttpMessageFor(status, txt) ==
  <<72, 84, 84, 80, 32>> \o Digits(status) \o <<46>>
  \o (IF txt = <<>> THEN <<>> ELSE <<32>> \o txt)

\* the messages of the errors operation o can have failed with
CausesOf(o) ==
  IF ops[o].resp = NoResponse THEN ErrorMessages
  ELSE IF ~Ok(ops[o].resp.status)
  THEN { HttpMessageFor(ops[o].resp.status, t) : t \in { ops[o].resp.body, <<>> } }
  ELSE IF ops[o].resp.bodyNull THEN { NoBodyMessage }
  ELSE ErrorMessages

\* the scenario stream "data: The answer\ndata: is 42.\ndata:[END]\n": once
\* delivered whole its sentinel is recognized, and from then on the
\* operation is not failed, its text is text, and loading is reset on return
ScenarioEnds(text) ==
  \A o \in 1..Len(ops) :
    ops[o].resp.body = ScenarioStream =>
      /\ ops[o].pos = Len(ScenarioStream) => ops[o].cancelled
      /\ ops[o].cancelled =>
           /\ ops[o].pc \in { "reading", "completed" }
           /\ Text(o) = text
           /\ ops[o].pc = "completed" => LoadingReset(o)

\* the text of the placeholder of operation o holds the payloads delivered
\* to o, and after them the failure notice when o failed
OwnDeltasOnly(o) ==
  CASE ops[o].pc \in { "fetching", "errtext" } -> Text(o) = <<>>
    [] ops[o].pc \in { "reading", "completed" } -> Text(o) = ProtocolText(o)
    [] ops[o].pc = "failed" ->
         /\ Len(Text(o)) > Len(ProtocolText(o))
         /\ SubSeq(Text(o), 1, Len(ProtocolText(o))) = ProtocolText(o)
         /\ SubSeq(Text(o), Len(ProtocolText(o)) + 1, Len(ProtocolText(o)) + 11)
              = <<10, 10, 83, 116, 114, 101, 97, 109, 105, 110, 103>>

\* two bodies are the same when they are the same text or the same JSON value
SameBody(a, b) ==
  a = b \/ (Reserialize(a) # "SyntaxError" /\ Reserialize(a) = Reserialize(b))

\* what "data:", k spaces and the bytes p make of the text: p behind k - 1
\* spaces (p itself for k = 0); nothing for the sentinel, a newline when empty
ExtractedFrom(k, p) ==
  LET kept == Spaces(IF k = 0 THEN 0 ELSE k - 1) \o Decode(0, p).text
  IN IF kept = <<91, 69, 78, 68, 93>> THEN <<>>
     ELSE IF kept = <<>> THEN <<10>>
     ELSE kept

\* the payloads of every terminated line of a body, in order
TerminatedText(body) == PayloadsOf(TerminatedLines(Decode(0, body).text))

\* the complete lines delivered to operation o that precede the sentinel
LinesReceived(o) == BeforeSentinel(TerminatedLines(Decode(0, Delivered(o)).text))

\* the text of the placeholder of operation o in the committed render
Shown(o) == messages[PlaceholderIndex(o) + 1].text

\* what follows the last line feed of a text; the whole text when it has none
UnterminatedTail(text) ==
  IF \A i \in 1..Len(text) : text[i] # 10 THEN text
  ELSE LET n == CHOOSE i \in 1..Len(text) :
                  text[i] = 10 /\ \A j \in (i + 1)..Len(text) : text[j] # 10
       IN SubSeq(text, n + 1, Len(text))

\* the steps of one operation: SENDING is fetching or errtext, STREAMING is
\* reading; a failure may come from either
OperationSteps ==
  { <<"fetching", "errtext">>, <<"fetching", "reading">>, <<"fetching", "failed">>,
    <<"errtext", "failed">>, <<"reading", "reading">>, <<"reading", "completed">>,
    <<"reading", "failed">> }

\* setLoading(false) is queued and not yet rendered
ResetPending == \E i \in 1..Len(queue) : queue[i].kind = "loadingFalse"

\* text a is the beginning of text b
IsPrefix(a, b) == Len(a) <= Len(b) /\ SubSeq(b, 1, Len(a)) = a

\* transcript after is transcript before with, at most, text appended to the
\* message at index idx and messages added behind
GrowsAt(before, after, idx) ==
  /\ Len(after) >= Len(before)
  /\ \A i \in 1..Len(before) :
       /\ after[i].role = before[i].role
       /\ IsPrefix(before[i].text, after[i].text)
       /\ after[i] # before[i] => (i = idx + 1 /\ before[i].role = "assistant")

\* the arguments of the appendToAssistant calls whose updates are queued
QueuedText ==
  LET appends == SelectSeq(queue, LAMBDA u : u.kind = "append")
  IN Concat([i \in 1..Len(appends) |-> appends[i].text])

----------------------------------------------------------------------------
(* C1  Chunk-boundary invariance: whatever the split of the body into     *)
(* chunks, an operation that completes leaves in its placeholder the text *)
(* the loop produces when the whole body arrives as one chunk.            *)
ChunkBoundaryInvariance ==
  \A o \in 1..Len(ops) :
    ops[o].pc = "completed" => Text(o) = OneChunkText(ops[o].resp.body)

\* an operation completed on a body with two deltas and an unterminated
\* tail, and its text is rendered
ChunkBoundaryWitness ==
  \E o \in 1..Len(ops) :
    /\ ops[o].pc = "completed"
    /\ queue = <<>>
    /\ ops[o].resp.body = DataPrefix \o <<SP, 97, LF>> \o DataPrefix \o <<LF>>
                          \o DataPrefix \o <<SP, 116>>
    /\ Text(o) = <<97, LF>>

(* C2  The concatenation of the deltas applied to the in-flight message    *)
(* is the concatenation of the payloads of the terminated data: lines     *)
(* delivered so far that precede the sentinel frame.                      *)
DeltasArePayloads ==
  \A o \in 1..Len(ops) :
    ops[o].pc \in { "reading", "completed" } => Text(o) = ProtocolText(o)

\* a line without the prefix and then a data: line were delivered
DeltasArePayloadsWitness ==
  \E o \in 1..Len(ops) :
    /\ ops[o].pc = "reading"
    /\ Delivered(o) = <<58, 120, LF>> \o DataPrefix \o <<SP, 97, LF>>
    /\ Text(o) = <<97>>

(* C3, as stated: on the scenario stream, under every split, the text is  *)
(* "The answer is 42." and the operation ends COMPLETED, loading reset.   *)
ScenarioAsStated ==
  ScenarioEnds(<<84, 104, 101, 32, 97, 110, 115, 119, 101, 114, 32, 105, 115, 32, 52, 50, 46>>)

(* C3, amended: on the scenario stream, under every split, the text is    *)
(* "The answeris 42.", the separator space of the second frame being      *)
(* stripped like that of the first, and the operation ends COMPLETED,     *)
(* loading reset.                                                         *)
ScenarioText ==
  ScenarioEnds(<<84, 104, 101, 32, 97, 110, 115, 119, 101, 114, 105, 115, 32, 52, 50, 46>>)

\* the scenario stream was read to its sentinel and the operation returned
ScenarioWitness ==
  \E o \in 1..Len(ops) :
    /\ ops[o].resp.body = ScenarioStream
    /\ ops[o].pc = "completed"
    /\ queue = <<>>
    /\ ~loading
    /\ messages[PlaceholderIndex(o) + 1].text
         = <<84, 104, 101, 32, 97, 110, 115, 119, 101, 114, 105, 115, 32, 52, 50, 46>>

(* C4  Once the sentinel is recognized nothing delivered on the stream is *)
(* applied: the lines behind it in the same chunk add no delta (the text  *)
(* is that of the lines before the first sentinel frame of the body), no  *)
(* further chunk is handed out, and the text never changes again.         *)
SentinelIsFinal ==
  [][\A o \in 1..Len(ops) :
       /\ (~ops[o].cancelled /\ ops'[o].cancelled) =>
            Text(o)' = TextBeforeSentinel(ops[o].resp.body)
       /\ ops[o].cancelled =>
            /\ ops'[o].cancelled
            /\ ops'[o].pos = ops[o].pos
            /\ ops'[o].buffer = <<>>
            /\ Text(o)' = Text(o)]_vars

\* the sentinel was recognized with a data: line behind it in the same
\* chunk, and the operation has returned with nothing applied
SentinelWitness ==
  \E o \in 1..Len(ops) :
    /\ ops[o].cancelled
    /\ ops[o].pc = "completed"
    /\ Delivered(o) = DataPrefix \o EndSentinel \o <<LF>> \o DataPrefix \o <<SP, 97, LF>>
    /\ queue = <<>>
    /\ Text(o) = <<>>

(* C5  Single active operation: an operation that is SENDING or STREAMING  *)
(* is the last one accepted, so no send was accepted while it was active; *)
(* the transcript holds the two messages of each accepted send and no     *)
(* other; the in-flight index is the placeholder of the last accepted     *)
(* send; and the text of every placeholder is made of the deltas of its   *)
(* own operation only.                                                    *)
SingleActiveOperation ==
  /\ \A o \in 1..Len(ops) : Active(ops[o]) => o = Len(ops)
  /\ Len(Settled.messages) = 1 + 2 * Len(ops)
  /\ ops # <<>> => assistantIndexRef = PlaceholderIndex(Len(ops))
  /\ \A o \in 1..Len(ops) : OwnDeltasOnly(o)

\* a second send can be issued, with text typed, while the first operation
\* is streaming and has had a delta applied
SecondSendWitness ==
  \E o \in 1..Len(ops) :
    /\ ops[o].pc = "reading"
    /\ Text(o) # <<>>
    /\ Len(Trim(input)) > 0
    /\ loading
    /\ Len(ops) < Len(script)

(* C6  A backend that answers the streaming request with 500 and no body: *)
(* once the client's fetch has resolved, the send ends FAILED, its text   *)
(* being the deltas applied and a failure notice, with loading reset.     *)
Http500Fails ==
  \A o \in 1..Len(ops) :
    (/\ script[o] = Backend(TRUE, 500, <<>>)
     /\ ops[o].resp # NoResponse
     /\ ops[o].pc \in { "completed", "failed" }) =>
      /\ ops[o].pc = "failed"
      /\ \E m \in CausesOf(o) : Text(o) = ProtocolText(o) \o NoticeFor(m)
      /\ LoadingReset(o)

(* C7  The stream relay is transparent: the response the client receives  *)
(* carries the status code and the body of the backend's response.        *)
RelayIsTransparent ==
  \A o \in 1..Len(ops) :
    (script[o].reachable /\ ops[o].pc # "fetching" /\ ops[o].resp # NoResponse) =>
      /\ ops[o].resp.status = script[o].status
      /\ ops[o].resp.body = script[o].body

(* C8  Client failure semantics: a response with a non-success status or  *)
(* without a body never reaches STREAMING, and a failed operation leaves   *)
(* the text applied before the failure followed by exactly one notice,    *)
(* "\n\nStreaming failed." with the error's message after a space when it *)
(* has one; loading is reset.                                             *)
FailureLeavesNotice ==
  \A o \in 1..Len(ops) :
    /\ (ops[o].resp # NoResponse /\ (~Ok(ops[o].resp.status) \/ ops[o].resp.bodyNull)) =>
         ops[o].pc \in { "errtext", "failed" }
    /\ ops[o].pc = "failed" =>
         /\ \E m \in CausesOf(o) : Text(o) = ProtocolText(o) \o NoticeFor(m)
         /\ LoadingReset(o)

\* a read was rejected without a message after a delta had been applied,
\* and the notice is rendered behind it
FailureWitness ==
  \E o \in 1..Len(ops) :
    /\ ops[o].pc = "failed"
    /\ queue = <<>>
    /\ ops[o].pos > 0
    /\ messages[PlaceholderIndex(o) + 1].text
         = <<72, 101, 108, 108, 111>> \o NoticeFor(<<>>)

(* C9  The non-streaming endpoint answers with the status code and the    *)
(* body of the backend's response, whatever they are.                     *)
AskIsTransparent ==
  (ask.pc = "done" /\ ask.reachable) =>
    /\ ask.status = ask.backendStatus
    /\ SameBody(ask.body, ask.backendBody)

(* C10  Payload extraction: a stream whose first line is data:, k spaces  *)
(* and a payload p that does not start with a space yields, once that    *)
(* line is delivered, p behind k - 1 spaces (p itself for k = 0), trailing *)
(* characters kept; nothing when that is the sentinel, a newline when it  *)
(* is empty.                                                              *)
PayloadExtraction ==
  \A o \in 1..Len(ops) : \A k \in 0..MaxSpaces : \A p \in OnePayloads :
    (/\ ops[o].pc \in { "reading", "completed" }
     /\ Delivered(o) = <<100, 97, 116, 97, 58>> \o Spaces(k) \o p \o <<10>>)
      => Text(o) = ExtractedFrom(k, p)

\* "data:  Hello\n" was delivered and " Hello" is in the transcript
PayloadExtractionWitness ==
  \E o \in 1..Len(ops) :
    /\ Delivered(o) = <<100, 97, 116, 97, 58, 32, 32, 72, 101, 108, 108, 111, 10>>
    /\ queue = <<>>
    /\ messages[PlaceholderIndex(o) + 1].text = <<32, 72, 101, 108, 108, 111>>

(* C11  A stream that ends without the sentinel having been seen leaves   *)
(* the operation COMPLETED: the whole body was handed out, the text is    *)
(* the payloads of its terminated lines with no failure notice and        *)
(* nothing of what follows the last line feed, and loading is reset.      *)
NaturalEndCompletes ==
  \A o \in 1..Len(ops) :
    (ops[o].pc = "completed" /\ ~ops[o].cancelled) =>
      /\ ops[o].pos = Len(ops[o].resp.body)
      /\ Text(o) = TerminatedText(ops[o].resp.body)
      /\ LoadingReset(o)

\* "data: Hello\n" and an unterminated "data: t" were read to the end of the
\* stream, and the transcript shows "Hello" with loading reset
NaturalEndWitness ==
  \E o \in 1..Len(ops) :
    /\ ops[o].pc = "completed"
    /\ ~ops[o].cancelled
    /\ ops[o].resp.body = DataPrefix \o <<SP, 72, 101, 108, 108, 111, LF>>
                          \o DataPrefix \o <<SP, 116>>
    /\ queue = <<>>
    /\ ~loading
    /\ messages[PlaceholderIndex(o) + 1].text = <<72, 101, 108, 108, 111>>

(* C12  Once the sentinel is recognized the reader is cancelled and no    *)
(* further read is issued on that stream: the operation is never again    *)
(* waiting on reader.read(), and it ends COMPLETED with no failure notice *)
(* and loading reset.                                                     *)
NoReadAfterSentinel ==
  \A o \in 1..Len(ops) :
    ops[o].cancelled =>
      /\ ops[o].pc = "completed"
      /\ Text(o) = TextBeforeSentinel(ops[o].resp.body)
      /\ LoadingReset(o)

(* C13  External cancellation: once the page has been left while an       *)
(* operation is STREAMING with its first delta applied, the stream is     *)
(* released: no further chunk is handed out to the operation, and nothing *)
(* more, a failure notice included, shows in the transcript.              *)
ExternalCancelReleases ==
  [][\A o \in 1..Len(ops) :
       (~mounted /\ ops[o].pc = "reading" /\ Text(o) # <<>>) =>
         /\ ops'[o].pos = ops[o].pos
         /\ messages' = messages]_vars

(* C14  When the relay's outbound fetch to the backend rejects, the relay *)
(* handler still returns a response: what the client's fetch resolves    *)
(* with is a response returned by the handler, which did not end with an  *)
(* uncaught error.                                                        *)
RelayAlwaysResponds ==
  \A o \in 1..Len(ops) :
    (~script[o].reachable /\ ops[o].pc # "fetching" /\ ops[o].resp # NoResponse) =>
      ops[o].resp \in RelayResponses(script[o])

(* C15  During STREAMING the in-flight message text is the deltas of the  *)
(* complete data: lines received so far before the sentinel, in arrival   *)
(* order; what the committed render shows of it is made of the deltas of  *)
(* the first k of these lines for some k, whole and in order, so that no  *)
(* part of a line whose terminator has not arrived is ever visible.       *)
OrderedWholeDeltas ==
  \A o \in 1..Len(ops) :
    ops[o].pc = "reading" =>
      /\ Text(o) = PayloadsOf(LinesReceived(o))
      /\ \E k \in 0..Len(LinesReceived(o)) :
           Shown(o) = PayloadsOf(SubSeq(LinesReceived(o), 1, k))

\* "data: a\ndata:\n" and an unterminated "data: t" were delivered: "a" is
\* on screen, the newline is still to be rendered, the tail is in the buffer
OrderedWholeDeltasWitness ==
  \E o \in 1..Len(ops) :
    /\ ops[o].pc = "reading"
    /\ Delivered(o) = DataPrefix \o <<SP, 97, LF>> \o DataPrefix \o <<LF>>
                      \o DataPrefix \o <<SP, 116>>
    /\ ops[o].buffer = DataPrefix \o <<SP, 116>>
    /\ Shown(o) = <<97>>
    /\ Text(o) = <<97, LF>>

(* C16  Decode-buffer invariant: whenever the loop waits for the next     *)
(* chunk the buffer holds no line feed; it is the unterminated tail of    *)
(* the text received so far, and it is empty once the sentinel has been   *)
(* recognized.                                                            *)
BufferIsTail ==
  \A o \in 1..Len(ops) :
    ops[o].pc = "reading" =>
      /\ \A i \in 1..Len(ops[o].buffer) : ops[o].buffer[i] # 10
      /\ ops[o].cancelled => ops[o].buffer = <<>>
      /\ ~ops[o].cancelled =>
           ops[o].buffer = UnterminatedTail(Decode(0, Delivered(o)).text)

\* "data: Hello\ndata:" was delivered and the loop waits with "data:" buffered
BufferIsTailWitness ==
  \E o \in 1..Len(ops) :
    /\ ops[o].pc = "reading"
    /\ Delivered(o) = DataPrefix \o <<SP, 72, 101, 108, 108, 111, LF>> \o DataPrefix
    /\ ops[o].buffer = DataPrefix

(* C17  Every accepted send goes from SENDING through STREAMING to        *)
(* COMPLETED or FAILED, or fails before STREAMING, and returns to IDLE:   *)
(* when the fetch and every read settle and React renders, the operation  *)
(* has ended and loading is false again; loading is true in every state   *)
(* from the acceptance of the send to the render of that reset, and in no *)
(* other.                                                                 *)
SendReturnsToIdle ==
  /\ [][/\ Len(ops') >= Len(ops)
        /\ \A o \in 1..Len(ops) :
             ops'[o].pc = ops[o].pc \/ <<ops[o].pc, ops'[o].pc>> \in OperationSteps]_vars
  /\ [](loading <=> (ops # <<>> /\ (Active(ops[Len(ops)]) \/ ResetPending)))
  /\ \A o \in 1..MaxSends :
       (Len(ops) >= o) ~> (Len(ops) >= o /\ ~Active(ops[o]) /\ ~loading)

\* two sends have returned, the first failed and the second completed, and
\* loading is false in the committed render
SendReturnsWitness ==
  /\ Len(ops) = 2
  /\ ops[1].pc = "failed"
  /\ ops[2].pc = "completed"
  /\ queue = <<>>
  /\ ~loading

(* C18  Transcript frame condition: in every step the transcript, as      *)
(* rendered and with the queued updates applied, keeps its messages in    *)
(* place and changes at most the message at the in-flight position, an    *)
(* assistant message, by appending to its text; an accepted send appends  *)
(* exactly a user message with the trimmed input and an assistant         *)
(* placeholder with empty text; the message of an operation that has      *)
(* completed or failed never changes afterwards.                          *)
TranscriptFrame ==
  [][/\ GrowsAt(messages, messages', assistantIndexRef)
     /\ GrowsAt(Settled.messages, Settled.messages', assistantIndexRef)
     /\ Len(ops') > Len(ops) =>
          /\ messages' = messages \o << Msg("user", Trim(input)), Msg("assistant", <<>>) >>
          /\ Settled.messages' = messages'
     /\ Len(ops') = Len(ops) => Len(Settled.messages') = Len(Settled.messages)
     /\ \A o \in 1..Len(ops) :
          /\ ops[o].pc \in { "completed", "failed" } => Text(o)' = Text(o)
          /\ (~Active(ops[o]) /\ (o < Len(ops) \/ ~loading)) => Shown(o)' = Shown(o)]_vars

\* a second send was accepted after the first had returned with text, and a
\* delta of the second operation is in the transcript
TranscriptFrameWitness ==
  /\ Len(ops) = 2
  /\ ops[1].pc = "completed"
  /\ ops[2].pc = "reading"
  /\ queue = <<>>
  /\ Len(messages) = 5
  /\ messages[3].text = <<97>>
  /\ messages[4] = Msg("user", <<113>>)
  /\ messages[5].text = <<97>>

(* C19  No delta or failure notice is dropped: whenever an update of      *)
(* appendToAssistant is queued, the in-flight index is not null, lies     *)
(* within the transcript, and is the index of the placeholder of the      *)
(* current send, the last message of the transcript; the early return of  *)
(* the updater is not taken, and rendering adds to that message exactly   *)
(* the queued deltas and notices, in order.                               *)
NoDeltaDropped ==
  (\E i \in 1..Len(queue) : queue[i].kind = "append") =>
    /\ assistantIndexRef # Null
    /\ assistantIndexRef >= 0
    /\ assistantIndexRef < Len(messages)
    /\ assistantIndexRef = Len(messages) - 1
    /\ assistantIndexRef = PlaceholderIndex(Len(ops))
    /\ messages[assistantIndexRef + 1].role = "assistant"
    /\ Settled.messages[assistantIndexRef + 1].text
         = messages[assistantIndexRef + 1].text \o QueuedText

\* the second operation failed after a delta had been rendered: its notice
\* is queued while the index designates the fifth message
NoDeltaDroppedWitness ==
  /\ Len(ops) = 2
  /\ ops[2].pc = "failed"
  /\ assistantIndexRef = 4
  /\ messages[5].text = <<97>>
  /\ queue # <<>>
  /\ QueuedText = Notice(<<>>)

====
